---- MODULE Spec2Model ----
(***************************************************************************)
(* Xeno AI chat client: the App component's session store, send flow and   *)
(* the gateway calls it awaits (src/App.tsx, src/services/gemini.ts).      *)
(*                                                                         *)
(* A text is a sequence of chunks: a typed character is one chunk, a fixed *)
(* string literal of the program is one chunk.  Identifiers are naturals   *)
(* (NULL = 0 stands for null).  An optional value (x?: T, T | null) is the *)
(* set of its values: {} when undefined or null, {v} when it is v.         *)
(***************************************************************************)
EXTENDS Naturals, Integers, Sequences, FiniteSets, TLC

\* ------------------------------------------------------------- bounds
\* a handler the user starts draws an identifier only while nextId <= MaxId
\* (the resumption of an awaited call always draws its own)
MaxId == 4
\* the session collection is never grown beyond MaxSessions
MaxSessions == 2
\* the number of sessions of a collection shown in the sidebar, and of their
\* updatedAt values
ListLen == 3

\* ---------------------------------------------------------- constants
\* substring(0, 30) of the title
TitleLen == 30

NULL == 0
Undefined == {}
Some(v) == {v}
Get(o) == CHOOSE v \in o : TRUE
UploadedImage == "data:image/png;base64,UPLOAD"
ImageBytes == "JPEGBYTES"

USER == "user"
MODEL == "model"
TEXT == "text"
IMAGE == "image"

\* ------------------------------------------------------------- texts
EmptyText == << >>
BlankText == <<" ", " ">>
TextHi == <<"h", "i">>
TextDraw == <<"d", "r", "a", "w", " ", "a", " ", "c", "a", "t">>
TextLong == <<"G", "e", "n", "e", "r", "a", "t", "e", " ", "i", "m", "a", "g", "e", " ", "o", "f", " ", "a", " ", "s", "u", "n", "s", "e", "t", " ", "a", "t", " ", "s", "e", "a">>
NaturalChatMsg == <<"H", "e", "l", "l", "o", "!", " ", "L", "e", "t", "'", "s", " ", "c", "h", "a", "t", ".">>

\* what the user can type into the textarea
Texts == {BlankText, TextHi, TextLong}

NewConversationTitle == <<"New Conversation">>
NewChatTitle == <<"New Chat">>
ImageAnalysisTitle == <<"Image Analysis">>
ImageReplyPrefix == <<"Here is the image you asked for! \n\nPrompt: \"">>
ImageReplySuffix == <<"\"">>
BlurryText == <<"I tried to generate that image, but my neural canvas is blurry right now. Please try again.">>
DisruptedText == <<"My neural link was disrupted. Please try again.">>
TroubleText == <<"I'm having trouble speaking right now.">>
ChatErrorText == <<"Sorry, I encountered an error connecting to my neural link.">>
RemoteReply == <<"(the remote model's text)">>

\* ----------------------------------------------------- string helpers
Whitespace == {" ", "\t", "\n"}

UpperChars == <<"A", "B", "C", "D", "E", "F", "G", "H", "I", "J", "K", "L", "M", "N", "O", "P", "Q", "R", "S", "T", "U", "V", "W", "X", "Y", "Z">>
LowerChars == <<"a", "b", "c", "d", "e", "f", "g", "h", "i", "j", "k", "l", "m", "n", "o", "p", "q", "r", "s", "t", "u", "v", "w", "x", "y", "z">>

Min(a, b) == IF a < b THEN a ELSE b

\* mutant: the text is not cut
Substring0_Whole(text, n) == text

\* String.prototype.substring(0, n)
Substring0(text, n) == SubSeq(text, 1, Min(n, Len(text)))

\* String.prototype.trim()
Trim(text) ==
    LET keep == {i \in 1..Len(text) : text[i] \notin Whitespace}
    IN  IF keep = {} THEN << >>
        ELSE LET lo == CHOOSE i \in keep : \A j \in keep : i <= j
                 hi == CHOOSE i \in keep : \A j \in keep : j <= i
             IN  SubSeq(text, lo, hi)

LowerChar(c) ==
    IF \E k \in 1..Len(UpperChars) : UpperChars[k] = c
    THEN LowerChars[CHOOSE k \in 1..Len(UpperChars) : UpperChars[k] = c]
    ELSE c

\* String.prototype.toLowerCase()
ToLowerCase(text) == [i \in 1..Len(text) |-> LowerChar(text[i])]

\* String.prototype.startsWith(p)
StartsWith(text, p) == Len(p) <= Len(text) /\ SubSeq(text, 1, Len(p)) = p

\* String.prototype.includes(p)
Includes(text, p) ==
    \E i \in 1..(Len(text) + 1) :
        i + Len(p) - 1 <= Len(text) /\ SubSeq(text, i, i + Len(p) - 1) = p

GenerateImagePhrase == <<"g", "e", "n", "e", "r", "a", "t", "e", " ", "i", "m", "a", "g", "e">>
CreateImagePhrase == <<"c", "r", "e", "a", "t", "e", " ", "i", "m", "a", "g", "e">>
DrawPhrase == <<"d", "r", "a", "w">>
ImaginePhrase == <<"i", "m", "a", "g", "i", "n", "e">>
MakeAnImageOfPhrase == <<"m", "a", "k", "e", " ", "a", "n", " ", "i", "m", "a", "g", "e", " ", "o", "f">>

\* mutant: the text is matched without being lower-cased first
isImageGenerationRequest_CaseSensitive(text) ==
    \/ StartsWith(text, GenerateImagePhrase)
    \/ StartsWith(text, CreateImagePhrase)
    \/ StartsWith(text, DrawPhrase)
    \/ StartsWith(text, ImaginePhrase)
    \/ Includes(text, MakeAnImageOfPhrase)

isImageGenerationRequest(text) ==
    LET lower == ToLowerCase(text)
    IN  \/ StartsWith(lower, GenerateImagePhrase)
        \/ StartsWith(lower, CreateImagePhrase)
        \/ StartsWith(lower, DrawPhrase)
        \/ StartsWith(lower, ImaginePhrase)
        \/ Includes(lower, MakeAnImageOfPhrase)

\* !x of JavaScript on an optional boolean
Truthy(p) == p = Some(TRUE)
\* mutant: the flag is set instead of toggled
Negate_Set(p) == Some(TRUE)

Negate(p) == Some(~Truthy(p))

\* ------------------------------------------------------------- state
VARIABLES
    phase,              \* "mount", "loaded", "splash", "ready": the startup sequence
    sessions,           \* useState<ChatSession[]>
    currentSessionId,   \* useState<string | null>
    input,              \* useState('')
    selectedImage,      \* useState<string | null>
    isTyping,           \* useState(false)
    showImageGenGuide,  \* useState(false)
    isLoggedIn,         \* useState(false)
    showLoginModal,     \* useState(false)
    previewData,        \* useState<PreviewData | null>
    xeno_sessions,      \* localStorage 'xeno_sessions': [present, value]
    xeno_auth,          \* localStorage 'xeno_auth'
    pending,            \* gateway calls awaited by handleSend invocations
    nextId              \* number of generateId results handed out so far, plus one

vars == <<phase, sessions, currentSessionId, input, selectedImage, isTyping,
          showImageGenGuide, isLoggedIn, showLoginModal, previewData,
          xeno_sessions, xeno_auth, pending, nextId>>

ui == <<input, selectedImage, isTyping, showImageGenGuide, previewData>>
auth == <<isLoggedIn, showLoginModal, xeno_auth>>

\* ----------------------------------------------------- sequence helpers
Range(s) == {s[i] : i \in 1..Len(s)}

\* Array.prototype.map
SessionIds(ss) == {ss[i].id : i \in 1..Len(ss)}

HasSession(ss, id) == \E i \in 1..Len(ss) : ss[i].id = id

\* sessions.find(s => s.id === id), where there is one
Find(ss, id) ==
    ss[CHOOSE i \in 1..Len(ss) : ss[i].id = id /\ \A j \in 1..(i - 1) : ss[j].id # id]

\* ------------------------------------------------------ serialization
\* JSON.stringify drops the properties whose value is undefined
Optional(name, value) ==
    IF value = Undefined THEN << >> ELSE [k \in {name} |-> Get(value)]

StringifyMessage(m) ==
    [id |-> m.id, role |-> m.role, text |-> m.text, type |-> m.type,
     timestamp |-> m.timestamp]
      @@ Optional("imageUrl", m.imageUrl)
      @@ Optional("originalPrompt", m.originalPrompt)

StringifySession(s) ==
    [id |-> s.id, title |-> s.title, messages |-> [i \in 1..Len(s.messages) |-> StringifyMessage(s.messages[i])],
     createdAt |-> s.createdAt, updatedAt |-> s.updatedAt]
      @@ Optional("isPinned", s.isPinned)

\* JSON.stringify(sessions)
Stringify(ss) == [i \in 1..Len(ss) |-> StringifySession(ss[i])]

\* reading a property a parsed object does not have yields undefined
Prop(obj, name) == IF name \in DOMAIN obj THEN Some(obj[name]) ELSE Undefined

ParseMessage(j) ==
    [id |-> j.id, role |-> j.role, text |-> j.text, type |-> j.type,
     timestamp |-> j.timestamp, imageUrl |-> Prop(j, "imageUrl"),
     originalPrompt |-> Prop(j, "originalPrompt")]

ParseSession(j) ==
    [id |-> j.id, title |-> j.title, messages |-> [i \in 1..Len(j.messages) |-> ParseMessage(j.messages[i])],
     createdAt |-> j.createdAt, updatedAt |-> j.updatedAt,
     isPinned |-> Prop(j, "isPinned")]

\* JSON.parse(stored)
Parse(stored) == [i \in 1..Len(stored) |-> ParseSession(stored[i])]

\* ------------------------------------------------------------ records
\* Date.now(): every handler that reads the clock also draws an identifier, and
\* the clock is read as the number of identifiers drawn so far (it never
\* runs backwards, and advances from one such handler to the next)
now == nextId

NewSession(id, title) ==
    [id |-> id, title |-> title, messages |-> << >>, createdAt |-> now,
     updatedAt |-> now, isPinned |-> Undefined]

\* generateId: crypto.randomUUID(), an identifier no earlier call returned
\* mutant: the call returns an identifier that is already in use
generateId_Repeat == IF sessions = << >> THEN nextId ELSE sessions[1].id

generateId == nextId

\* mutant: only the first session of the collection is written
SaveEffect_Partial(ss) == [present |-> TRUE, value |-> Stringify(SubSeq(ss, 1, Min(Len(ss), 1)))]

\* the save effect: localStorage.setItem('xeno_sessions', JSON.stringify(sessions)),
\* run after every render in which sessions changed
SaveEffect(ss) == [present |-> TRUE, value |-> Stringify(ss)]

NoPreview == [open |-> FALSE, url |-> "", isGenerated |-> FALSE, prompt |-> Undefined]

\* ------------------------------------------------------------ startup
\* what an earlier run of the program can have left in localStorage
StoredSession ==
    [id |-> 1, title |-> TextHi,
     messages |-> <<[id |-> 2, role |-> USER, text |-> TextHi, type |-> TEXT, timestamp |-> 0]>>,
     createdAt |-> 0, updatedAt |-> 0, isPinned |-> TRUE]

StoredChoices ==
    { [present |-> FALSE, value |-> << >>],
      [present |-> TRUE, value |-> << >>],
      [present |-> TRUE, value |-> <<StoredSession>>] }

Init ==
    /\ phase = "mount"
    /\ sessions = << >>
    /\ currentSessionId = NULL
    /\ input = EmptyText
    /\ selectedImage = Undefined
    /\ isTyping = FALSE
    /\ showImageGenGuide = FALSE
    /\ isLoggedIn = FALSE
    /\ showLoginModal = FALSE
    /\ previewData = NoPreview
    /\ xeno_sessions \in StoredChoices
    /\ xeno_auth \in {"absent", "true"}
    /\ pending = {}
    /\ nextId = StoredSession.messages[1].id + 1

\* the two effects of the first render: load (reads storage, schedules
\* setSessions) and save (writes the first render's sessions, which is [])
MountEffects ==
    /\ phase = "mount"
    /\ sessions' = IF xeno_sessions.present THEN Parse(xeno_sessions.value) ELSE sessions
    /\ isLoggedIn' = (xeno_auth = "true")
    /\ xeno_sessions' = SaveEffect(sessions)
    /\ phase' = IF xeno_sessions.present THEN "loaded" ELSE "splash"
    /\ UNCHANGED <<currentSessionId, ui, showLoginModal, xeno_auth, pending, nextId>>

\* the save effect of the render that follows setSessions(JSON.parse(stored))
LoadedSaveEffect ==
    /\ phase = "loaded"
    /\ xeno_sessions' = SaveEffect(sessions)
    /\ phase' = "splash"
    /\ UNCHANGED <<sessions, currentSessionId, ui, auth, pending, nextId>>

\* StartupScreen's onComplete: setShowStartup(false)
StartupComplete ==
    /\ phase = "splash"
    /\ phase' = "ready"
    /\ UNCHANGED <<sessions, currentSessionId, ui, auth, xeno_sessions, pending, nextId>>

\* ------------------------------------------------------ auth handlers
handleLoginSuccess ==
    /\ phase = "ready"
    /\ showLoginModal
    /\ isLoggedIn' = TRUE
    /\ showLoginModal' = FALSE
    /\ xeno_auth' = "true"
    /\ UNCHANGED <<phase, sessions, currentSessionId, ui, xeno_sessions, pending, nextId>>

\* LoginModal's onClose
CloseLoginModal ==
    /\ phase = "ready"
    /\ showLoginModal
    /\ showLoginModal' = FALSE
    /\ UNCHANGED <<phase, sessions, currentSessionId, ui, isLoggedIn, xeno_auth, xeno_sessions, pending, nextId>>

\* ------------------------------------------------------ chat handlers
\* mutant: the new session is added without becoming the current one
handleNewChat_KeepCurrent ==
    /\ phase = "ready"
    /\ Len(sessions) < MaxSessions
    /\ nextId <= MaxId
    /\ sessions' = <<NewSession(generateId, NewConversationTitle)>> \o sessions
    /\ nextId' = nextId + 1
    /\ showImageGenGuide' = FALSE
    /\ xeno_sessions' = SaveEffect(sessions')
    /\ UNCHANGED <<phase, currentSessionId, input, selectedImage, isTyping, previewData,
                   auth, pending>>

handleNewChat ==
    /\ phase = "ready"
    /\ Len(sessions) < MaxSessions
    /\ nextId <= MaxId
    /\ LET newSession == NewSession(generateId, NewConversationTitle)
       IN  /\ sessions' = <<newSession>> \o sessions
           /\ currentSessionId' = newSession.id
    /\ nextId' = nextId + 1
    /\ showImageGenGuide' = FALSE
    /\ xeno_sessions' = SaveEffect(sessions')
    /\ UNCHANGED <<phase, input, selectedImage, isTyping, previewData, auth, pending>>

\* mutant: the pointer is left on the deleted session
handleDeleteSession_KeepPointer(id) ==
    /\ phase = "ready"
    /\ sessions' = SelectSeq(sessions, LAMBDA s : s.id # id)
    /\ xeno_sessions' = SaveEffect(sessions')
    /\ UNCHANGED <<phase, currentSessionId, ui, auth, pending, nextId>>

handleDeleteSession(id) ==
    /\ phase = "ready"
    /\ sessions' = SelectSeq(sessions, LAMBDA s : s.id # id)
    /\ currentSessionId' = IF currentSessionId = id THEN NULL ELSE currentSessionId
    /\ xeno_sessions' = SaveEffect(sessions')
    /\ UNCHANGED <<phase, ui, auth, pending, nextId>>

handlePinSession(id) ==
    /\ phase = "ready"
    /\ sessions' = [i \in 1..Len(sessions) |->
                        LET s == sessions[i]
                        IN  IF s.id = id THEN [s EXCEPT !.isPinned = Negate(s.isPinned)] ELSE s]
    /\ xeno_sessions' = SaveEffect(sessions')
    /\ UNCHANGED <<phase, currentSessionId, ui, auth, pending, nextId>>

\* mutant: the session is selected without requireAuth
handleSessionSelect_NoAuth(id) ==
    /\ phase = "ready"
    /\ currentSessionId' = id
    /\ showImageGenGuide' = FALSE
    /\ UNCHANGED <<phase, sessions, input, selectedImage, isTyping, previewData,
                   auth, xeno_sessions, pending, nextId>>

\* requireAuth(callback)
handleSessionSelect(id) ==
    /\ phase = "ready"
    /\ IF isLoggedIn
       THEN /\ currentSessionId' = id
            /\ showImageGenGuide' = FALSE
            /\ UNCHANGED showLoginModal
       ELSE /\ showLoginModal' = TRUE
            /\ UNCHANGED <<currentSessionId, showImageGenGuide>>
    /\ UNCHANGED <<phase, sessions, input, selectedImage, isTyping, previewData,
                   isLoggedIn, xeno_auth, xeno_sessions, pending, nextId>>

\* mutant: the collection is emptied and the pointer is left as it is
onClearAll_KeepPointer ==
    /\ phase = "ready"
    /\ sessions' = << >>
    /\ xeno_sessions' = SaveEffect(sessions')
    /\ UNCHANGED <<phase, currentSessionId, ui, auth, pending, nextId>>

\* Sidebar's onClearAll
onClearAll ==
    /\ phase = "ready"
    /\ sessions' = << >>
    /\ currentSessionId' = NULL
    /\ xeno_sessions' = SaveEffect(sessions')
    /\ UNCHANGED <<phase, ui, auth, pending, nextId>>

\* the file input is opened only through requireAuth; reader.onloadend
\* then sets the selected image
handleImageSelect ==
    /\ phase = "ready"
    /\ isLoggedIn
    /\ selectedImage' = Some(UploadedImage)
    /\ showImageGenGuide' = FALSE
    /\ UNCHANGED <<phase, sessions, currentSessionId, input, isTyping, previewData, auth,
                   xeno_sessions, pending, nextId>>

handleImageUploadClick ==
    /\ phase = "ready"
    /\ ~isLoggedIn
    /\ showLoginModal' = TRUE
    /\ UNCHANGED <<phase, sessions, currentSessionId, ui, isLoggedIn, xeno_auth,
                   xeno_sessions, pending, nextId>>

\* the X of the image preview in the input area
RemoveSelectedImage ==
    /\ phase = "ready"
    /\ selectedImage # Undefined
    /\ selectedImage' = Undefined
    /\ UNCHANGED <<phase, sessions, currentSessionId, input, isTyping, showImageGenGuide,
                   previewData, auth, xeno_sessions, pending, nextId>>

\* the textarea's onChange
TypeInput(t) ==
    /\ phase = "ready"
    /\ input' = t
    /\ UNCHANGED <<phase, sessions, currentSessionId, selectedImage, isTyping,
                   showImageGenGuide, previewData, auth, xeno_sessions, pending, nextId>>

\* the Image Magic button of the welcome panel, shown while there is no current session
ImageMagic ==
    /\ phase = "ready"
    /\ ~HasSession(sessions, currentSessionId)
    /\ showImageGenGuide' = TRUE
    /\ UNCHANGED <<phase, sessions, currentSessionId, input, selectedImage, isTyping,
                   previewData, auth, xeno_sessions, pending, nextId>>

\* the X of the image generation guidance panel
CloseImageGenGuide ==
    /\ phase = "ready"
    /\ showImageGenGuide /\ selectedImage = Undefined
    /\ showImageGenGuide' = FALSE
    /\ UNCHANGED <<phase, sessions, currentSessionId, input, selectedImage, isTyping,
                   previewData, auth, xeno_sessions, pending, nextId>>

\* --------------------------------------------------------- gateway
\* what the remote service does with a call
RemoteOutcomes(kind) ==
    IF kind = IMAGE THEN {"image", "none", "error"} ELSE {"text", "empty", "error"}

\* mutant: an empty response text is returned as it is
sendMessageToGemini_NoFallback(remote) ==
    IF remote = "error" THEN ChatErrorText
    ELSE IF remote = "empty" THEN EmptyText
    ELSE RemoteReply

\* sendMessageToGemini: the string it resolves to
sendMessageToGemini(remote) ==
    IF remote = "error" THEN ChatErrorText
    ELSE IF remote = "empty" THEN TroubleText
    ELSE RemoteReply

\* mutant: the remote error is swallowed and null is returned
generateImageWithGemini_Swallow(remote) ==
    IF remote = "image" THEN [threw |-> FALSE, value |-> Some("data:image/jpeg;base64," \o ImageBytes)]
    ELSE [threw |-> FALSE, value |-> Undefined]

\* generateImageWithGemini: rethrows the remote error, else a data URI or null
generateImageWithGemini(remote) ==
    IF remote = "error" THEN [threw |-> TRUE, value |-> Undefined]
    ELSE IF remote = "image" THEN [threw |-> FALSE, value |-> Some("data:image/jpeg;base64," \o ImageBytes)]
    ELSE [threw |-> FALSE, value |-> Undefined]

\* mutant: the prompt of a generated image is not kept
Message_NoPrompt(id, role, text, imageUrl, type, originalPrompt) ==
    [id |-> id, role |-> role, text |-> text, imageUrl |-> imageUrl, type |-> type,
     timestamp |-> now, originalPrompt |-> Undefined]

Message(id, role, text, imageUrl, type, originalPrompt) ==
    [id |-> id, role |-> role, text |-> text, imageUrl |-> imageUrl, type |-> type,
     timestamp |-> now, originalPrompt |-> originalPrompt]

\* ------------------------------------------------------------ handleSend
\* mutant: the early return is missing, so the block after it creates a second session
handleSendRejected_Twice(textToSend) ==
    /\ IF currentSessionId = NULL
       THEN /\ Len(sessions) < MaxSessions
            /\ nextId <= MaxId
            /\ LET first == NewSession(generateId, NewChatTitle)
                   second == NewSession(generateId + 1, textToSend)
               IN  /\ sessions' = <<second, first>> \o sessions
                   /\ currentSessionId' = second.id
            /\ nextId' = nextId + 2
            /\ xeno_sessions' = SaveEffect(sessions')
       ELSE UNCHANGED <<sessions, currentSessionId, nextId, xeno_sessions>>
    /\ UNCHANGED <<input, selectedImage, isTyping, showImageGenGuide, pending>>

\* mutant: the textarea is cleared although nothing is sent
handleSendRejected_ClearsInput(textToSend) ==
    /\ IF currentSessionId = NULL
       THEN /\ Len(sessions) < MaxSessions
            /\ nextId <= MaxId
            /\ LET title == IF Substring0(textToSend, TitleLen) # EmptyText
                            THEN Substring0(textToSend, TitleLen) ELSE NewChatTitle
                   newSession == NewSession(generateId, title)
               IN  /\ sessions' = <<newSession>> \o sessions
                   /\ currentSessionId' = newSession.id
            /\ nextId' = nextId + 1
            /\ xeno_sessions' = SaveEffect(sessions')
       ELSE UNCHANGED <<sessions, currentSessionId, nextId, xeno_sessions>>
    /\ input' = EmptyText
    /\ UNCHANGED <<selectedImage, isTyping, showImageGenGuide, pending>>

\* the branch taken when nothing is to be sent or no session is current
handleSendRejected(textToSend) ==
    /\ IF currentSessionId = NULL
       THEN /\ Len(sessions) < MaxSessions
            /\ nextId <= MaxId
            /\ LET title == IF Substring0(textToSend, TitleLen) # EmptyText
                            THEN Substring0(textToSend, TitleLen) ELSE NewChatTitle
                   newSession == NewSession(generateId, title)
               IN  /\ sessions' = <<newSession>> \o sessions
                   /\ currentSessionId' = newSession.id
            /\ nextId' = nextId + 1
            /\ xeno_sessions' = SaveEffect(sessions')
       ELSE UNCHANGED <<sessions, currentSessionId, nextId, xeno_sessions>>
    /\ UNCHANGED <<input, selectedImage, isTyping, showImageGenGuide, pending>>

\* the synchronous part of an accepted send, up to the await of the gateway call
handleSendAccepted(textToSend, isImageGenMode) ==
    /\ nextId <= MaxId
    /\ LET targetSessionId == currentSessionId
           userMsg == Message(generateId, USER, textToSend, selectedImage, TEXT, Undefined)
           kind == IF isImageGenMode \/ isImageGenerationRequest(textToSend) THEN IMAGE ELSE TEXT
           call == [id |-> userMsg.id, target |-> targetSessionId, text |-> textToSend, kind |-> kind]
           append(s) ==
               IF s.id = targetSessionId
               THEN [s EXCEPT !.title = IF Len(s.messages) = 0
                                        THEN (IF Substring0(textToSend, TitleLen) # EmptyText
                                              THEN Substring0(textToSend, TitleLen)
                                              ELSE ImageAnalysisTitle)
                                        ELSE s.title,
                              !.messages = Append(s.messages, userMsg),
                              !.updatedAt = now]
               ELSE s
       IN  /\ sessions' = [i \in 1..Len(sessions) |-> append(sessions[i])]
           /\ pending' = pending \cup {call}
    /\ nextId' = nextId + 1
    /\ input' = EmptyText
    /\ selectedImage' = Undefined
    /\ isTyping' = TRUE
    /\ showImageGenGuide' = FALSE
    /\ xeno_sessions' = SaveEffect(sessions')
    /\ UNCHANGED currentSessionId

handleSend(overrideText, isImageGenMode) ==
    LET textToSend == IF overrideText # EmptyText THEN overrideText ELSE input
    IN  /\ phase = "ready"
        /\ IF (Trim(textToSend) = EmptyText /\ selectedImage = Undefined) \/ currentSessionId = NULL
           THEN handleSendRejected(textToSend)
           ELSE handleSendAccepted(textToSend, isImageGenMode)
        /\ UNCHANGED <<phase, auth>>

\* mutant: a target that is gone is put back with the answer as its only message
AppendBot_Recreate(ss, targetSessionId, botMsg) ==
    IF HasSession(ss, targetSessionId)
    THEN [i \in 1..Len(ss) |-> LET s == ss[i] IN
                       IF s.id = targetSessionId
                       THEN [s EXCEPT !.messages = Append(s.messages, botMsg), !.updatedAt = now]
                       ELSE s]
    ELSE <<[NewSession(targetSessionId, NewChatTitle) EXCEPT !.messages = <<botMsg>>]>> \o ss

\* mutant: the bot message is appended twice
AppendBot_Twice(ss, targetSessionId, botMsg) ==
    [i \in 1..Len(ss) |-> LET s == ss[i] IN
                       IF s.id = targetSessionId
                       THEN [s EXCEPT !.messages = s.messages \o <<botMsg, botMsg>>, !.updatedAt = now]
                       ELSE s]

\* mutant: the bot message goes to the session that is current when the call settles
AppendBot_Current(ss, targetSessionId, botMsg) ==
    [i \in 1..Len(ss) |-> LET s == ss[i] IN
                       IF s.id = currentSessionId
                       THEN [s EXCEPT !.messages = Append(s.messages, botMsg), !.updatedAt = now]
                       ELSE s]

\* mutant: the bot message is put in front of the earlier messages
AppendBot_Prepend(ss, targetSessionId, botMsg) ==
    [i \in 1..Len(ss) |-> LET s == ss[i] IN
                       IF s.id = targetSessionId
                       THEN [s EXCEPT !.messages = <<botMsg>> \o s.messages, !.updatedAt = now]
                       ELSE s]

\* setSessions(prev => prev.map(...)) of the try block: the bot message
AppendBot(ss, targetSessionId, botMsg) ==
    [i \in 1..Len(ss) |-> LET s == ss[i] IN
                       IF s.id = targetSessionId
                       THEN [s EXCEPT !.messages = Append(s.messages, botMsg), !.updatedAt = now]
                       ELSE s]

\* mutant: the error message is appended twice
AppendError_Twice(ss, targetSessionId, errorMsg) ==
    [i \in 1..Len(ss) |-> LET s == ss[i] IN
                       IF s.id = targetSessionId
                       THEN [s EXCEPT !.messages = s.messages \o <<errorMsg, errorMsg>>]
                       ELSE s]

\* mutant: the catch block only logs the error
AppendError_Swallow(ss, targetSessionId, errorMsg) == ss

\* setSessions(prev => prev.map(...)) of the catch block: the error message
AppendError(ss, targetSessionId, errorMsg) ==
    [i \in 1..Len(ss) |-> LET s == ss[i] IN
                       IF s.id = targetSessionId
                       THEN [s EXCEPT !.messages = Append(s.messages, errorMsg)]
                       ELSE s]

\* mutant: the flag stays on while another call is awaited
handleSendResume_Counted(call, remote) ==
    /\ call \in pending
    /\ remote \in RemoteOutcomes(call.kind)
    /\ LET image == generateImageWithGemini(remote)
           threw == call.kind = IMAGE /\ image.threw
           generated == call.kind = IMAGE /\ image.value # Undefined
           responseText ==
               IF call.kind = IMAGE
               THEN (IF generated THEN ImageReplyPrefix \o call.text \o ImageReplySuffix
                     ELSE BlurryText)
               ELSE sendMessageToGemini(remote)
           botMsg == Message(generateId, MODEL, responseText,
                             IF generated THEN image.value ELSE Undefined,
                             IF generated THEN IMAGE ELSE TEXT,
                             IF generated THEN Some(call.text) ELSE Undefined)
           errorMsg == Message(generateId, MODEL, DisruptedText, Undefined, TEXT, Undefined)
       IN  sessions' = IF threw THEN AppendError(sessions, call.target, errorMsg)
                       ELSE AppendBot(sessions, call.target, botMsg)
    /\ isTyping' = (pending \ {call} # {})
    /\ pending' = pending \ {call}
    /\ nextId' = nextId + 1
    /\ xeno_sessions' = SaveEffect(sessions')
    /\ UNCHANGED <<phase, currentSessionId, input, selectedImage, showImageGenGuide,
                   previewData, auth>>

\* the rest of handleSend, run when the awaited gateway call settles
handleSendResume(call, remote) ==
    /\ call \in pending
    /\ remote \in RemoteOutcomes(call.kind)
    /\ LET image == generateImageWithGemini(remote)
           threw == call.kind = IMAGE /\ image.threw
           generated == call.kind = IMAGE /\ image.value # Undefined
           responseText ==
               IF call.kind = IMAGE
               THEN (IF generated THEN ImageReplyPrefix \o call.text \o ImageReplySuffix
                     ELSE BlurryText)
               ELSE sendMessageToGemini(remote)
           botMsg == Message(generateId, MODEL, responseText,
                             IF generated THEN image.value ELSE Undefined,
                             IF generated THEN IMAGE ELSE TEXT,
                             IF generated THEN Some(call.text) ELSE Undefined)
           errorMsg == Message(generateId, MODEL, DisruptedText, Undefined, TEXT, Undefined)
       IN  sessions' = IF threw THEN AppendError(sessions, call.target, errorMsg)
                       ELSE AppendBot(sessions, call.target, botMsg)
    /\ isTyping' = FALSE
    /\ pending' = pending \ {call}
    /\ nextId' = nextId + 1
    /\ xeno_sessions' = SaveEffect(sessions')
    /\ UNCHANGED <<phase, currentSessionId, input, selectedImage, showImageGenGuide,
                   previewData, auth>>

\* ---------------------------------------------------- callers of handleSend
\* the send button, disabled while there is nothing to send
SendButton ==
    /\ Trim(input) # EmptyText \/ selectedImage # Undefined
    /\ handleSend(EmptyText, showImageGenGuide)
    /\ UNCHANGED previewData

\* Enter without Shift in the textarea
handleKeyPress ==
    /\ handleSend(EmptyText, showImageGenGuide)
    /\ UNCHANGED previewData

\* the Natural Chat button of the welcome panel
NaturalChat ==
    /\ ~HasSession(sessions, currentSessionId)
    /\ handleSend(NaturalChatMsg, FALSE)
    /\ UNCHANGED previewData

\* MessageBubble's onImageClick: setPreviewData
onImageClick(m) ==
    /\ phase = "ready"
    /\ m.imageUrl # Undefined
    /\ previewData' = [open |-> TRUE, url |-> Get(m.imageUrl),
                       isGenerated |-> (m.role # USER /\ m.type = IMAGE),
                       prompt |-> m.originalPrompt]
    /\ UNCHANGED <<phase, sessions, currentSessionId, input, selectedImage, isTyping,
                   showImageGenGuide, auth, xeno_sessions, pending, nextId>>

\* a click on the full screen image modal: setPreviewData(null)
ClosePreview ==
    /\ phase = "ready"
    /\ previewData.open
    /\ previewData' = NoPreview
    /\ UNCHANGED <<phase, sessions, currentSessionId, input, selectedImage, isTyping,
                   showImageGenGuide, auth, xeno_sessions, pending, nextId>>

handleRegenerateImage ==
    /\ previewData.open /\ previewData.isGenerated
    /\ previewData.prompt # Undefined /\ Get(previewData.prompt) # EmptyText
    /\ previewData' = NoPreview
    /\ handleSend(Get(previewData.prompt), TRUE)

\* --------------------------------------------------------------- Next
Next ==
    \/ MountEffects
    \/ LoadedSaveEffect
    \/ StartupComplete
    \/ handleLoginSuccess
    \/ CloseLoginModal
    \/ handleNewChat
    \/ \E id \in SessionIds(sessions) : handleDeleteSession(id)
    \/ \E id \in SessionIds(sessions) : handlePinSession(id)
    \/ \E id \in SessionIds(sessions) : handleSessionSelect(id)
    \/ onClearAll
    \/ handleImageSelect
    \/ handleImageUploadClick
    \/ RemoveSelectedImage
    \/ \E t \in Texts : TypeInput(t)
    \/ ImageMagic
    \/ CloseImageGenGuide
    \/ SendButton
    \/ handleKeyPress
    \/ NaturalChat
    \/ \E m \in (IF HasSession(sessions, currentSessionId)
                 THEN Range(Find(sessions, currentSessionId).messages) ELSE {}) : onImageClick(m)
    \/ ClosePreview
    \/ handleRegenerateImage
    \/ \E call \in pending : \E remote \in RemoteOutcomes(call.kind) : handleSendResume(call, remote)

Spec == Init /\ [][Next]_vars

\* every awaited gateway call settles
FairSpec ==
    Spec /\ WF_vars(\E call \in pending : \E remote \in RemoteOutcomes(call.kind) : handleSendResume(call, remote))

\* ======================================================================
\* Properties
\* ======================================================================
IsPrefix(a, b) == Len(a) <= Len(b) /\ SubSeq(b, 1, Len(a)) = a

Remove(seq, k) == SubSeq(seq, 1, k - 1) \o SubSeq(seq, k + 1, Len(seq))

RECURSIVE SumLen(_)
SumLen(ss) == IF ss = << >> THEN 0 ELSE Len(Head(ss).messages) + SumLen(Tail(ss))

LastOf(seq) == seq[Len(seq)]

\* a step of any caller of handleSend
SendCaller == SendButton \/ handleKeyPress \/ NaturalChat \/ handleRegenerateImage

\* a step of handleSend with non-empty text while no session is current
SendTextWithoutSession ==
    /\ currentSessionId = NULL
    /\ NaturalChat \/ (Trim(input) # EmptyText /\ (SendButton \/ handleKeyPress))

\* C1: a handleSend with non-empty text and no current session completes the
\* send for that text: the session it creates holds the user's message and a
\* gateway call for it is under way (from which the model message follows).
C1_SendWithoutSessionCompletes ==
    [][SendTextWithoutSession =>
          /\ HasSession(sessions', currentSessionId')
          /\ \E m \in Range(Find(sessions', currentSessionId').messages) : m.role = USER
          /\ \E c \in pending' : c.target = currentSessionId']_vars

\* C2: one handleSend with no current session adds exactly one session, leaves
\* every session that was there unchanged and in place, and makes the new one current.
C2_OneNewSession ==
    [][(currentSessionId = NULL /\ SendCaller) =>
          /\ Len(sessions') = Len(sessions) + 1
          /\ \E k \in 1..Len(sessions') :
                /\ sessions'[k].id \notin SessionIds(sessions)
                /\ currentSessionId' = sessions'[k].id
                /\ Remove(sessions', k) = sessions]_vars

\* a session made by handleSend (no message, not the title of handleNewChat) is
\* current, next to a session that was there before
C2_Witness ==
    /\ Len(sessions) = 2
    /\ sessions[1].id = currentSessionId
    /\ sessions[1].messages = << >>
    /\ sessions[1].title # NewConversationTitle
    /\ sessions[2] = ParseSession(StoredSession)

\* the awaited image call of `call` throws
Throws(call) == call.kind = IMAGE /\ handleSendResume(call, "error")

\* the step appends the one fixed error message to the target of `call`
ErrorAppended(call) ==
    /\ HasSession(sessions, call.target) /\ HasSession(sessions', call.target)
    /\ LET before == Find(sessions, call.target).messages
           after == Find(sessions', call.target).messages
       IN  /\ Len(after) = Len(before) + 1
           /\ IsPrefix(before, after)
           /\ LastOf(after).role = MODEL
           /\ LastOf(after).text = DisruptedText
    /\ SumLen(sessions') = SumLen(sessions) + 1

\* C3 as stated: whenever the gateway call of a send throws, exactly one
\* model message with the fixed text is appended to the target session and
\* isTyping is false afterwards.
C3_ThrowAppendsOne ==
    [][\A call \in pending : Throws(call) => (ErrorAppended(call) /\ ~isTyping')]_vars

\* C3 amended: whenever the gateway call of a send throws, isTyping is false
\* afterwards; exactly one model message with the fixed text is appended to the
\* target session if that session is still in the collection, and the
\* collection is left as it is if the session has been deleted meanwhile.
C3_ThrowAppendsOneIfPresent ==
    [][\A call \in pending : Throws(call) =>
          /\ ~isTyping'
          /\ IF HasSession(sessions, call.target) THEN ErrorAppended(call)
             ELSE sessions' = sessions]_vars

\* a session ends with the error message of a thrown call and nothing is awaited
C3_Witness ==
    /\ pending = {}
    /\ ~isTyping
    /\ \E i \in 1..Len(sessions) :
          /\ Len(sessions[i].messages) >= 2
          /\ LastOf(sessions[i].messages).role = MODEL
          /\ LastOf(sessions[i].messages).text = DisruptedText

\* a step of handleSend that sends `text`: there is something to send and a
\* session is current
AcceptedSend(text) ==
    /\ currentSessionId # NULL
    /\ Trim(text) # EmptyText \/ selectedImage # Undefined
    /\ \/ text = input /\ (SendButton \/ handleKeyPress)
       \/ previewData.prompt = Some(text) /\ handleRegenerateImage

\* the texts a step of handleSend can send
Sendable == {input} \cup previewData.prompt

\* the first half of the order: the user message is appended to the current
\* session, isTyping is true and one gateway call for the text is started
SendOrder(text) ==
    /\ HasSession(sessions, currentSessionId)
    /\ LET before == Find(sessions, currentSessionId).messages
           after == Find(sessions', currentSessionId).messages
       IN  /\ Len(after) = Len(before) + 1
           /\ IsPrefix(before, after)
           /\ LastOf(after).role = USER
           /\ LastOf(after).text = text
    /\ isTyping'
    /\ Cardinality(pending' \ pending) = 1 /\ pending \subseteq pending'
    /\ \A c \in pending' \ pending : c.target = currentSessionId /\ c.text = text

\* the step appends exactly one message, a model message, to the target of `call`
OneModelMessageAppended(call) ==
    /\ HasSession(sessions, call.target) /\ HasSession(sessions', call.target)
    /\ LET before == Find(sessions, call.target).messages
           after == Find(sessions', call.target).messages
       IN  /\ Len(after) = Len(before) + 1
           /\ IsPrefix(before, after)
           /\ LastOf(after).role = MODEL
    /\ SumLen(sessions') = SumLen(sessions) + 1

Resumes(call) == \E remote \in RemoteOutcomes(call.kind) : handleSendResume(call, remote)

Awaited(k) == \E c \in pending : c.id = k

\* C4 as stated: when the gateway call of a send settles, whether it succeeded
\* or failed, one model message is appended to the target session and isTyping
\* is set to false.
C4_ResumeAppendsOne ==
    [][\A call \in pending : Resumes(call) =>
          (OneModelMessageAppended(call) /\ ~isTyping' /\ call \notin pending')]_vars

\* C4 amended: an accepted send appends the user message to the target session,
\* sets isTyping and starts one gateway call; when that call settles, one model
\* message is appended to the target session if it is still in the collection
\* (nothing is appended if it has been deleted) and isTyping is set to false;
\* and every call that is awaited does settle.
C4_SendOrderIfPresent ==
    /\ [][/\ \A text \in Sendable : AcceptedSend(text) => SendOrder(text)
          /\ \A call \in pending : Resumes(call) =>
                /\ ~isTyping' /\ call \notin pending'
                /\ IF HasSession(sessions, call.target) THEN OneModelMessageAppended(call)
                   ELSE sessions' = sessions]_vars
    /\ \A k \in 1..(MaxId + 1) : Awaited(k) ~> ~Awaited(k)

\* a send has run its whole course: the session ends with the user message and
\* the model's answer to it, nothing is awaited and isTyping is off
C4_Witness ==
    /\ pending = {}
    /\ ~isTyping
    /\ \E i \in 1..Len(sessions) :
          LET ms == sessions[i].messages
          IN  /\ Len(ms) >= 2
              /\ ms[Len(ms) - 1].role = USER
              /\ ms[Len(ms)].role = MODEL
              /\ ms[Len(ms)].text = RemoteReply

\* C5 as stated: at every moment at most one gateway call is awaited for any
\* given session.
C5_OneCallPerSession ==
    \A c1 \in pending : \A c2 \in pending : c1.target = c2.target => c1 = c2

\* what a resumption does to the sessions other than the target: nothing
OthersUntouched(call) ==
    /\ Len(sessions') = Len(sessions)
    /\ \A i \in 1..Len(sessions) : sessions[i].id # call.target => sessions'[i] = sessions[i]

\* C6 as stated: the model message of a send is appended to the session that
\* was current when the send started and to no other, whichever session is
\* current when the call settles.
C6_ReplyGoesToTarget ==
    [][\A call \in pending : Resumes(call) =>
          (OthersUntouched(call) /\ OneModelMessageAppended(call))]_vars

\* C6 amended: when the call of a send settles, no session other than the
\* send's target changes, whichever session is current; the target receives
\* the one model message if it is still in the collection, and if it has been
\* deleted the message is appended to no session at all.
C6_ReplyGoesToTargetIfPresent ==
    [][\A call \in pending : Resumes(call) =>
          /\ OthersUntouched(call)
          /\ IF HasSession(sessions, call.target) THEN OneModelMessageAppended(call)
             ELSE sessions' = sessions]_vars

\* a session that is not the current one holds the model's answer while the
\* current session, loaded at startup, still has its one stored message
C6_Witness ==
    /\ pending = {}
    /\ currentSessionId = StoredSession.id
    /\ HasSession(sessions, currentSessionId)
    /\ Len(Find(sessions, currentSessionId).messages) = 1
    /\ \E i \in 1..Len(sessions) :
          /\ sessions[i].id # currentSessionId
          /\ sessions[i].messages # << >>
          /\ LastOf(sessions[i].messages).role = MODEL

\* C7: handleDeleteSession(id) removes exactly the session with that id and
\* leaves the others as they are and in their order; the pointer becomes NULL
\* if it was on id and is unchanged otherwise.
C7_DeleteRemovesOne ==
    [][\A id \in SessionIds(sessions) : handleDeleteSession(id) =>
          /\ id \notin SessionIds(sessions')
          /\ \E k \in 1..Len(sessions) : sessions[k].id = id /\ sessions' = Remove(sessions, k)
          /\ currentSessionId' = IF currentSessionId = id THEN NULL ELSE currentSessionId]_vars

\* the current session was deleted while its call was awaited: the call's target
\* is gone, the pointer is NULL and the session loaded at startup is left as it was
C7_Witness ==
    /\ currentSessionId = NULL
    /\ sessions = <<ParseSession(StoredSession)>>
    /\ \E c \in pending : c.target \notin SessionIds(sessions)

\* C8: handleNewChat adds a session with no messages whose id is the id of no
\* session already in the collection, and makes it the current session.
C8_NewChatFresh ==
    [][handleNewChat =>
          /\ Len(sessions') = Len(sessions) + 1
          /\ Head(sessions').messages = << >>
          /\ Head(sessions').id \notin SessionIds(sessions)
          /\ currentSessionId' = Head(sessions').id
          /\ Tail(sessions') = sessions]_vars

\* a second chat was created while an earlier one with messages is kept
C8_Witness ==
    /\ Len(sessions) = 2
    /\ sessions[1].id = currentSessionId
    /\ sessions[1].messages = << >>
    /\ sessions[1].title = NewConversationTitle
    /\ sessions[2].messages # << >>

\* C9: no two sessions of the collection have the same id.
C9_UniqueIds ==
    \A i \in 1..Len(sessions) : \A j \in 1..Len(sessions) :
        sessions[i].id = sessions[j].id => i = j

\* a loaded session whose pin was toggled next to a created one that was sent
\* to and answered
C9_Witness ==
    /\ Len(sessions) = 2
    /\ \E i \in 1..2 : sessions[i].id = StoredSession.id /\ ~Truthy(sessions[i].isPinned)
    /\ \E i \in 1..2 : \E m \in Range(sessions[i].messages) : m.role = MODEL

\* C10: for every session that stays in the collection, a step leaves its
\* earlier message list as a prefix of its later one: messages are only
\* appended, never removed, reordered or rewritten.
C10_MessagesOnlyAppended ==
    [][\A i \in 1..Len(sessions) : \A j \in 1..Len(sessions') :
          sessions[i].id = sessions'[j].id =>
              IsPrefix(sessions[i].messages, sessions'[j].messages)]_vars

\* the session loaded at startup still begins with its stored message after a
\* send and its answer were appended
C10_Witness ==
    \E i \in 1..Len(sessions) :
        LET ms == sessions[i].messages
        IN  /\ Len(ms) >= 3
            /\ ms[1] = ParseSession(StoredSession).messages[1]
            /\ ms[2].role = USER
            /\ ms[3].role = MODEL

\* C11: currentSessionId is NULL or the id of exactly one session of the
\* collection.
C11_PointerNeverDangles ==
    \/ currentSessionId = NULL
    \/ Cardinality({i \in 1..Len(sessions) : sessions[i].id = currentSessionId}) = 1

\* a session other than the current one was deleted while its call was awaited:
\* the pointer still names a session of the collection
C11_Witness ==
    /\ currentSessionId # NULL
    /\ HasSession(sessions, currentSessionId)
    /\ \E c \in pending : c.target \notin SessionIds(sessions)

\* C12: handlePinSession(id) flips the pinned state of the session with that id
\* and nothing else (no other field, no other session, not the pointer), and
\* a second invocation on the result gives back the pinned state from before
\* the first.
C12_PinTogglesAndReturns ==
    [][\A id \in SessionIds(sessions) : handlePinSession(id) =>
          /\ Len(sessions') = Len(sessions)
          /\ \A i \in 1..Len(sessions) :
                IF sessions[i].id = id
                THEN /\ Truthy(sessions'[i].isPinned) = ~Truthy(sessions[i].isPinned)
                     /\ [sessions'[i] EXCEPT !.isPinned = sessions[i].isPinned] = sessions[i]
                     /\ Truthy(Negate(sessions'[i].isPinned)) = Truthy(sessions[i].isPinned)
                ELSE sessions'[i] = sessions[i]
          /\ currentSessionId' = currentSessionId]_vars

\* a session created in this run (isPinned undefined at first) has been pinned
\* and unpinned again: its flag is now false
C12_Witness ==
    \E i \in 1..Len(sessions) :
        /\ sessions[i].id # StoredSession.id
        /\ sessions[i].isPinned = Some(FALSE)

\* ------------------------------------------- classification of typed texts
\* the letter cases a text can be typed in
UpperChar(c) ==
    IF \E k \in 1..Len(LowerChars) : LowerChars[k] = c
    THEN UpperChars[CHOOSE k \in 1..Len(LowerChars) : LowerChars[k] = c]
    ELSE c

ToUpperCase(text) == [i \in 1..Len(text) |-> UpperChar(text[i])]

Capitalize(text) ==
    IF text = EmptyText THEN text ELSE <<UpperChar(Head(text))>> \o Tail(text)

\* a typed text is a lead, a phrase and a tail, in one of three letter cases
Leads == {EmptyText, <<"p", "l", "s", " ">>}
PrefixPhrases == {GenerateImagePhrase, CreateImagePhrase, DrawPhrase, ImaginePhrase}
OtherPhrases ==
    { <<"h", "e", "l", "l", "o", " ", "t", "h", "e", "r", "e">>,
      <<"d", "r">>,
      <<"m", "a", "k", "e", " ", "i", "m", "a", "g", "e">> }
Phrases == PrefixPhrases \cup {MakeAnImageOfPhrase} \cup OtherPhrases
Cases == {"lower", "capital", "upper"}
Tails == {EmptyText, <<" ", "a", " ", "c", "a", "t">>,
          <<" ", "o", "f", " ", "a", " ", "s", "u", "n", "s", "e", "t">>}

ClassifyParts == [lead : Leads, phrase : Phrases, case : Cases, tail : Tails]

Build(p) ==
    LET t == p.lead \o p.phrase \o p.tail
    IN  CASE p.case = "lower" -> t
          [] p.case = "capital" -> Capitalize(t)
          [] p.case = "upper" -> ToUpperCase(t)

ClassifyInputs == {Build(p) : p \in ClassifyParts}

\* the three texts the rule is illustrated with
DrawACat == Build([lead |-> EmptyText, phrase |-> DrawPhrase, case |-> "lower",
                   tail |-> <<" ", "a", " ", "c", "a", "t">>])
GenerateImageOfASunset ==
    Build([lead |-> EmptyText, phrase |-> GenerateImagePhrase, case |-> "lower",
           tail |-> <<" ", "o", "f", " ", "a", " ", "s", "u", "n", "s", "e", "t">>])
HelloThere == <<"h", "e", "l", "l", "o", " ", "t", "h", "e", "r", "e">>

\* a new chat is open and one of the texts has been typed into the textarea
ClassifyInit ==
    /\ phase = "ready"
    /\ nextId = 2
    /\ sessions = <<[id |-> 1, title |-> NewConversationTitle, messages |-> << >>,
                     createdAt |-> 1, updatedAt |-> 1, isPinned |-> Undefined]>>
    /\ currentSessionId = 1
    /\ input \in ClassifyInputs
    /\ selectedImage = Undefined
    /\ isTyping = FALSE
    /\ showImageGenGuide = FALSE
    /\ isLoggedIn = FALSE
    /\ showLoginModal = FALSE
    /\ previewData = NoPreview
    /\ xeno_sessions = SaveEffect(sessions)
    /\ xeno_auth = "absent"
    /\ pending = {}

\* the text is sent, by the button or by Enter
ClassifyNext == SendButton \/ handleKeyPress

ClassifySpec == ClassifyInit /\ [][ClassifyNext]_vars

\* what the rule says of a text built from the parts p: a generation request
\* when one of the four prefixes opens the text or 'make an image of' occurs
ExpectedRequest(p) ==
    \/ p.lead = EmptyText /\ p.phrase \in PrefixPhrases
    \/ p.phrase = MakeAnImageOfPhrase

\* C13: a sent text goes the image way exactly when, lower-cased, it starts
\* with 'generate image', 'create image', 'draw' or 'imagine' or contains
\* 'make an image of'; 'draw a cat' and 'generate image of a sunset' are
\* generation requests and 'hello there' is not.
C13_ClassifiedByRule ==
    /\ \A c \in pending : \A p \in ClassifyParts :
          c.text = Build(p) => ((c.kind = IMAGE) <=> ExpectedRequest(p))
    /\ \A c \in pending :
          /\ c.text \in {DrawACat, GenerateImageOfASunset} => c.kind = IMAGE
          /\ c.text = HelloThere => c.kind = TEXT
    /\ pending # {} => \A c \in pending : c.text \in ClassifyInputs

\* 'Draw a cat', typed with a capital, was sent and went the image way
C13_Witness ==
    \E c \in pending :
        /\ c.text = Capitalize(DrawACat)
        /\ c.kind = IMAGE

\* C14: once the save effect has run, the 'xeno_sessions' record of local
\* storage is the serialization of the whole in-memory collection.
C14_StorageIsCollection ==
    phase \in {"splash", "ready"} =>
        /\ xeno_sessions.present
        /\ Len(xeno_sessions.value) = Len(sessions)
        /\ xeno_sessions.value = Stringify(sessions)

\* two sessions are in memory and in storage, one of them with a generated
\* image and its prompt
C14_Witness ==
    /\ phase = "ready"
    /\ Len(sessions) = 2
    /\ Len(xeno_sessions.value) = 2
    /\ \E i \in 1..2 : \E k \in 1..Len(xeno_sessions.value[i].messages) :
          "originalPrompt" \in DOMAIN xeno_sessions.value[i].messages[k]

\* the text the model message of a text call carries, by outcome of the remote call
TextCallResult(remote) ==
    CASE remote = "text" -> RemoteReply
      [] remote = "error" -> ChatErrorText
      [] remote = "empty" -> TroubleText

\* C15: sendMessageToGemini never throws: whatever the remote text call does,
\* the send gets a string back, the model's text on success, the fixed failure
\* string when the remote call raises an error and the fixed fallback string
\* when the response text is empty; the catch block of handleSend is not entered.
C15_TextCallReturnsString ==
    [][\A call \in pending : \A remote \in RemoteOutcomes(TEXT) :
          (/\ call.kind = TEXT
           /\ HasSession(sessions, call.target)
           /\ handleSendResume(call, remote)) =>
              LET m == LastOf(Find(sessions', call.target).messages)
              IN  /\ m.role = MODEL
                  /\ m.text = TextCallResult(remote)
                  /\ m.text \notin {DisruptedText, EmptyText}]_vars

\* a text call came back with an empty text and the fallback string was shown
C15_Witness ==
    \E i \in 1..Len(sessions) :
        /\ sessions[i].messages # << >>
        /\ LastOf(sessions[i].messages).role = MODEL
        /\ LastOf(sessions[i].messages).text = TroubleText

\* C16 as stated: for every outcome of the remote image call, a failure of the
\* call included, generateImageWithGemini returns a data URI or null (it does
\* not throw).
C16_ImageCallReturns ==
    [][\A call \in pending : \A remote \in RemoteOutcomes(IMAGE) :
          (call.kind = IMAGE /\ handleSendResume(call, remote)) =>
              ~generateImageWithGemini(remote).threw]_vars

\* C16 amended: generateImageWithGemini returns a base64 image data URI when
\* the remote call delivers an image and null when it delivers none; when the
\* remote call fails it returns neither: the error is thrown on to handleSend,
\* whose catch block answers with the 'disrupted' message.
C16_ImageCallReturnsOrRethrows ==
    [][\A call \in pending : \A remote \in RemoteOutcomes(IMAGE) :
          (/\ call.kind = IMAGE
           /\ HasSession(sessions, call.target)
           /\ handleSendResume(call, remote)) =>
              LET m == LastOf(Find(sessions', call.target).messages)
                  r == generateImageWithGemini(remote)
              IN  /\ r.threw <=> remote = "error"
                  /\ r.value # Undefined <=> remote = "image"
                  /\ remote = "image" => m.imageUrl = Some("data:image/jpeg;base64," \o ImageBytes)
                  /\ remote = "none" => m.imageUrl = Undefined /\ m.text = BlurryText
                  /\ remote = "error" => m.imageUrl = Undefined /\ m.text = DisruptedText]_vars

\* an image call delivered an image: the session shows the data URI
C16_Witness ==
    \E i \in 1..Len(sessions) : \E m \in Range(sessions[i].messages) :
        /\ m.role = MODEL
        /\ m.imageUrl = Some("data:image/jpeg;base64," \o ImageBytes)

\* the gateway call of the step failed: the remote call raised an error, or the
\* image call delivered no image
FailedCall(call, remote) ==
    /\ remote = "error" \/ (call.kind = IMAGE /\ remote = "none")
    /\ handleSendResume(call, remote)

\* the step appends exactly one message to the target of `call`, a model
\* message with the given text
OneFallbackAppended(call, text) ==
    /\ OneModelMessageAppended(call)
    /\ LastOf(Find(sessions', call.target).messages).text = text
    /\ LastOf(Find(sessions', call.target).messages).type = TEXT

\* C17 as stated: every failed gateway call yields exactly one model message in
\* the target session, the chat failure string for a text call and the image
\* generation failure string for an image call.
C17_OneFallbackPerKind ==
    [][\A call \in pending : \A remote \in RemoteOutcomes(call.kind) :
          FailedCall(call, remote) =>
              OneFallbackAppended(call, IF call.kind = TEXT THEN ChatErrorText ELSE BlurryText)]_vars

\* C17 amended: every failed gateway call yields exactly one model message in
\* the target session if that session is still in the collection, and none
\* otherwise: the chat failure string for a failed text call, the image
\* generation failure string for an image call that delivers no image, and the
\* 'disrupted' string of handleSend's catch block for an image call that throws.
C17_OneFallbackIfPresent ==
    [][\A call \in pending : \A remote \in RemoteOutcomes(call.kind) :
          FailedCall(call, remote) =>
              IF HasSession(sessions, call.target)
              THEN OneFallbackAppended(call,
                       CASE call.kind = TEXT -> ChatErrorText
                         [] call.kind = IMAGE /\ remote = "none" -> BlurryText
                         [] call.kind = IMAGE /\ remote = "error" -> DisruptedText)
              ELSE sessions' = sessions]_vars

\* an image call delivered no image and the session shows the image failure string
C17_Witness ==
    \E i \in 1..Len(sessions) :
        /\ sessions[i].messages # << >>
        /\ LastOf(sessions[i].messages).role = MODEL
        /\ LastOf(sessions[i].messages).text = BlurryText

\* C18 as stated: handleSessionSelect(id) makes the session with that id the
\* current one and changes nothing in the collection.
C18_SelectMakesCurrent ==
    [][\A id \in SessionIds(sessions) : handleSessionSelect(id) =>
          (currentSessionId' = id /\ sessions' = sessions)]_vars

\* C18 amended: handleSessionSelect(id) changes nothing in the collection; when
\* the user is logged in it makes the session with that id the current one, and
\* when not it leaves the pointer as it is and opens the login modal.
C18_SelectNeedsLogin ==
    [][\A id \in SessionIds(sessions) : handleSessionSelect(id) =>
          /\ sessions' = sessions
          /\ xeno_sessions' = xeno_sessions
          /\ IF isLoggedIn
             THEN currentSessionId' = id /\ showLoginModal' = showLoginModal
             ELSE currentSessionId' = currentSessionId /\ showLoginModal']_vars

\* the session loaded at startup, which only a selection can make current, is
\* current while a newer session of this run is in the list
C18_Witness ==
    /\ isLoggedIn
    /\ currentSessionId = StoredSession.id
    /\ Len(sessions) = 2
    /\ sessions[1].id # StoredSession.id

\* `title` is the first TitleLen characters of `text`, or 'Image Analysis' when
\* there are none
TitleOfFirstSend(title, text) ==
    IF text = EmptyText THEN title = ImageAnalysisTitle
    ELSE /\ IsPrefix(title, text)
         /\ Len(title) = (IF Len(text) < TitleLen THEN Len(text) ELSE TitleLen)

\* C19: when the first user message is appended to a session with no messages,
\* the title becomes the first 30 characters of its text ('Image Analysis' when
\* the text is empty); a send to a session that has messages, and every other
\* step, leaves the title of a session that has messages as it is.
C19_TitleFromFirstSend ==
    [][/\ \A text \in Sendable : AcceptedSend(text) =>
             LET before == Find(sessions, currentSessionId)
                 after == Find(sessions', currentSessionId)
             IN  IF before.messages = << >>
                 THEN TitleOfFirstSend(after.title, text)
                 ELSE after.title = before.title
       /\ \A i \in 1..Len(sessions) : \A j \in 1..Len(sessions') :
             (sessions[i].id = sessions'[j].id /\ sessions[i].messages # << >>) =>
                 sessions'[j].title = sessions[i].title]_vars

\* a first send of 33 characters gave a title of 30, which the answer that
\* followed left in place
C19_Witness ==
    \E i \in 1..Len(sessions) :
        /\ Len(sessions[i].messages) >= 2
        /\ sessions[i].messages[1].text = TextLong
        /\ Len(sessions[i].title) = TitleLen
        /\ sessions[i].title = SubSeq(TextLong, 1, TitleLen)

\* image generation mode of the step that sends `text`: the regenerate button
\* passes true, the send button and Enter pass showImageGenGuide
ImageModeOn(text) ==
    \/ previewData.prompt = Some(text) /\ handleRegenerateImage
    \/ text = input /\ showImageGenGuide /\ (SendButton \/ handleKeyPress)

\* C20: an accepted send starts exactly one gateway call, the image call if and
\* only if image generation mode is on or isImageGenerationRequest(text) holds
\* and the text call otherwise; the model message that results has type IMAGE,
\* an image and originalPrompt equal to the sent text exactly when the image
\* call returned an image, and type TEXT and no image otherwise.
C20_OneCallByKind ==
    [][/\ \A text \in Sendable : AcceptedSend(text) =>
             /\ Cardinality(pending' \ pending) = 1
             /\ \A c \in pending' \ pending :
                   /\ c.text = text
                   /\ c.kind \in {IMAGE, TEXT}
                   /\ c.kind = IMAGE <=> (ImageModeOn(text) \/ isImageGenerationRequest(text))
       /\ \A call \in pending : \A remote \in RemoteOutcomes(call.kind) :
             (HasSession(sessions, call.target) /\ handleSendResume(call, remote)) =>
                 LET m == LastOf(Find(sessions', call.target).messages)
                 IN  IF call.kind = IMAGE /\ remote = "image"
                     THEN /\ m.type = IMAGE
                          /\ m.imageUrl # Undefined
                          /\ m.originalPrompt = Some(call.text)
                     ELSE /\ m.type = TEXT
                          /\ m.imageUrl = Undefined
                          /\ m.originalPrompt = Undefined]_vars

\* 'hi' was sent with image generation mode on: the image call was made and
\* its image is shown with 'hi' as its prompt
C20_Witness ==
    \E i \in 1..Len(sessions) :
        LET ms == sessions[i].messages
        IN  /\ Len(ms) = 2
            /\ ms[1].role = USER /\ ms[1].text = TextHi
            /\ ms[2].role = MODEL /\ ms[2].type = IMAGE
            /\ ms[2].originalPrompt = Some(TextHi)

\* ------------------------------------------------- the sidebar's listing
\* mutant: the pin is ignored
compare_DateOnly(a, b) == b.updatedAt - a.updatedAt

\* the comparator of the sort: pinned first, then date
compare(a, b) ==
    IF Truthy(a.isPinned) /\ ~Truthy(b.isPinned) THEN -1
    ELSE IF ~Truthy(a.isPinned) /\ Truthy(b.isPinned) THEN 1
    ELSE b.updatedAt - a.updatedAt

\* sessions.filter(s => s.title.toLowerCase().includes(searchTerm.toLowerCase())):
\* a new array
filter(ss, searchTerm) ==
    SelectSeq(ss, LAMBDA s : Includes(ToLowerCase(s.title), ToLowerCase(searchTerm)))

\* Array.prototype.sort with a comparator: a stable sort (of the array filter returned)
RECURSIVE InsertSorted(_, _)
InsertSorted(x, sorted) ==
    IF sorted = << >> THEN <<x>>
    ELSE IF compare(x, Head(sorted)) < 0 THEN <<x>> \o sorted
    ELSE <<Head(sorted)>> \o InsertSorted(x, Tail(sorted))

RECURSIVE sort(_)
sort(arr) ==
    IF arr = << >> THEN << >>
    ELSE InsertSorted(arr[Len(arr)], sort(SubSeq(arr, 1, Len(arr) - 1)))

filteredSessions(ss, searchTerm) == sort(filter(ss, searchTerm))

\* titles and search terms, character by character
TitleHello == <<"H", "e", "l", "l", "o">>
SidebarTitles == {TextHi, TitleHello}
SearchTerms == {EmptyText, <<"h">>, <<"H", "I">>, <<"L", "L">>, <<"z">>}

\* a collection of ListLen sessions, as an earlier run can have stored it, is
\* loaded and the sidebar is shown
SidebarCollections ==
    { [i \in 1..ListLen |->
          [id |-> i, title |-> t[i], messages |-> << >>, createdAt |-> 0,
           updatedAt |-> u[i], isPinned |-> p[i]]] :
        t \in [1..ListLen -> SidebarTitles],
        u \in [1..ListLen -> 1..ListLen],
        p \in [1..ListLen -> {Undefined, Some(TRUE)}] }

SidebarInit ==
    /\ phase = "ready"
    /\ sessions \in SidebarCollections
    /\ currentSessionId = NULL
    /\ input = EmptyText
    /\ selectedImage = Undefined
    /\ isTyping = FALSE
    /\ showImageGenGuide = FALSE
    /\ isLoggedIn = TRUE
    /\ showLoginModal = FALSE
    /\ previewData = NoPreview
    /\ xeno_sessions = SaveEffect(sessions)
    /\ xeno_auth = "true"
    /\ pending = {}
    /\ nextId = ListLen + 1

\* the buttons of the k-th session listed under a search term
Listed(searchTerm, k) == filteredSessions(sessions, searchTerm)[k].id

ListedPin == \E searchTerm \in SearchTerms :
                 \E k \in 1..Len(filteredSessions(sessions, searchTerm)) :
                     handlePinSession(Listed(searchTerm, k))

ListedDelete == \E searchTerm \in SearchTerms :
                    \E k \in 1..Len(filteredSessions(sessions, searchTerm)) :
                        handleDeleteSession(Listed(searchTerm, k))

SidebarNext == ListedPin \/ ListedDelete

SidebarSpec == SidebarInit /\ [][SidebarNext]_vars

IdsOf(ss) == [i \in 1..Len(ss) |-> ss[i].id]

\* C21: under every search term the sidebar lists exactly the sessions whose
\* title contains the term, letter case aside, every pinned session before
\* every unpinned one and each group by descending updatedAt; and the
\* collection keeps its own order and content, whatever is listed and clicked.
C21_ListingFilteredAndOrdered ==
    /\ [](\A searchTerm \in SearchTerms :
            LET listed == filteredSessions(sessions, searchTerm)
                lower == ToLowerCase(searchTerm)
            IN  /\ Range(listed) =
                      {s \in Range(sessions) :
                          \E i \in 1..(Len(s.title) + 1) :
                              /\ i + Len(lower) - 1 <= Len(s.title)
                              /\ \A j \in 1..Len(lower) : LowerChar(s.title[i + j - 1]) = lower[j]}
                /\ Len(listed) = Cardinality(Range(listed))
                /\ \A i \in 1..Len(listed) : \A j \in (i + 1)..Len(listed) :
                      /\ Truthy(listed[j].isPinned) => Truthy(listed[i].isPinned)
                      /\ Truthy(listed[i].isPinned) = Truthy(listed[j].isPinned)
                            => listed[i].updatedAt >= listed[j].updatedAt)
    /\ [][IdsOf(sessions') =
            SelectSeq(IdsOf(sessions), LAMBDA id : id \in SessionIds(sessions'))]_vars

\* under the term 'h' a pinned session, last in the collection and the least
\* recently updated, is listed first, before one that a click unpinned; the
\* term 'LL' lists fewer sessions
C21_Witness ==
    /\ Len(sessions) = ListLen
    /\ LET listed == filteredSessions(sessions, <<"h">>)
       IN  /\ Len(listed) = ListLen
           /\ listed[1] = sessions[Len(sessions)]
           /\ Truthy(listed[1].isPinned)
           /\ listed[2].isPinned = Some(FALSE)
           /\ listed[1].updatedAt < listed[3].updatedAt
           /\ listed[2].updatedAt > listed[3].updatedAt
           /\ listed[2].title # listed[3].title
    /\ Len(filteredSessions(sessions, <<"L", "L">>)) < ListLen

\* C22 as stated: whenever a gateway call started by a send is awaited,
\* isTyping is true.
C22_TypingWhileAwaited == pending # {} => isTyping

\* C22 amended: isTyping is true only while a gateway call is awaited: an
\* accepted send sets it to true and every settling of a call sets it to false,
\* also while another call is still awaited, so that with two overlapping sends
\* the completion of the first turns the flag off.
C22_TypingUntilFirstSettles ==
    /\ [](isTyping => pending # {})
    /\ [][/\ \A text \in Sendable : AcceptedSend(text) => isTyping'
          /\ \A call \in pending : Resumes(call) => ~isTyping']_vars

\* the first of two overlapping sends has settled: the flag is off while the
\* call of the second is awaited by a session that holds its user message last
C22_Witness ==
    /\ ~isTyping
    /\ \E call \in pending :
          /\ HasSession(sessions, call.target)
          /\ LET messages == Find(sessions, call.target).messages
             IN  /\ messages[Len(messages)].role = MODEL
                 /\ \E i \in 1..(Len(messages) - 1) :
                       messages[i].role = USER /\ messages[i].id = call.id

\* C23: when the target session of an awaited call is no longer in the
\* collection (deleted, or cleared with the rest), the settling of the call
\* appends nothing and does not bring the session back: collection, stored
\* record and pointer are as they were, and isTyping is set to false.
C23_LateAnswerDropped ==
    [][\A call \in pending :
          (~HasSession(sessions, call.target) /\ Resumes(call)) =>
              /\ sessions' = sessions
              /\ call.target \notin SessionIds(sessions')
              /\ xeno_sessions' = xeno_sessions
              /\ currentSessionId' = currentSessionId
              /\ ~isTyping'
              /\ pending' = pending \ {call}]_vars

\* the one send of the run has settled and its session is gone: only the
\* session loaded at startup is left, as it was, and nothing is current
C23_Witness ==
    /\ pending = {}
    /\ ~isTyping
    /\ currentSessionId = NULL
    /\ sessions = <<ParseSession(StoredSession)>>
    /\ nextId > MaxId + 1

\* C24 as stated: while the app starts with a stored collection, the stored
\* record never holds anything but that collection: once it is loaded into
\* memory, storage holds its serialization.
C24_StartupKeepsStorage ==
    phase \in {"loaded", "splash"} =>
        \A C \in {c.value : c \in {x \in StoredChoices : x.present}} :
            sessions = Parse(C) => xeno_sessions = [present |-> TRUE, value |-> C]

\* a send that has nothing to send: a session is current, the text is empty or
\* blank and no image is selected
NothingToSend ==
    /\ currentSessionId # NULL
    /\ Trim(input) = EmptyText
    /\ selectedImage = Undefined
    /\ SendButton \/ handleKeyPress

\* C25: with a session current, a send whose text is empty or blank and which
\* has no selected image changes nothing: collection, pointer, input, selected
\* image and isTyping stay as they are and no gateway call is started.
C25_EmptySendIsNoOp ==
    [][NothingToSend =>
          UNCHANGED <<sessions, currentSessionId, input, selectedImage, isTyping,
                      pending, xeno_sessions, nextId>>]_vars

\* blanks are in the textarea of a session that has messages, with no image selected
C25_Witness ==
    /\ phase = "ready"
    /\ currentSessionId # NULL
    /\ HasSession(sessions, currentSessionId)
    /\ Find(sessions, currentSessionId).messages # << >>
    /\ input = BlankText
    /\ selectedImage = Undefined

====
